---- MODULE Spec2Model ----
(***************************************************************************)
(* The periodic-table explorer of src/main.py as a state machine: one      *)
(* Streamlit session that re-runs the script, the cached loader, the grid  *)
(* the script emits, the click handler of the grid and the details view.   *)
(***************************************************************************)
EXTENDS Integers, Sequences, FiniteSets, TLC

VARIABLES
  now,                      \* the clock the cache's ttl is measured against
  cache,                    \* st.cache_data's entry for load_element_data
  last_fetch,               \* the latest run of the body of load_element_data
  elements_df,              \* main's elements_df in the latest script run
  widgets,                  \* the sidebar's widgets: options offered and choice
  filtered_df,              \* main's filtered_df in the latest script run
  selected_element_number,  \* st.session_state.selected_element_number
  selected_element,         \* state.selected_element
  grid,                     \* the children of the grid that were written
  details,                  \* what display_element_details rendered
  run_error,                \* the exception that ended the latest script run
  message,                  \* the message handleElementClick posted last
  at_click,                 \* the selection and the view when it was posted
  run_since_click,          \* whether the script has run since then
  color_arg,                \* an argument for get_element_color
  color_ret                 \* what the call did with it

vars == <<now, cache, last_fetch, elements_df, widgets, filtered_df,
          selected_element_number, selected_element, grid, details, run_error,
          message, at_click, run_since_click, color_arg, color_ret>>

----------------------------------------------------------------------------
\* Bounds of the model.

\* The clock advances at most this often.
MaxTicks == 2


----------------------------------------------------------------------------
\* Python values.

\* None, and an absent optional value: the empty tuple; a present one: <<v>>.
None == <<>>

Some(v) == <<v>>

\* A str, as the tuple of its characters.
PyStr(chars) == [t |-> "str", v |-> chars]

\* An int, or a float with an integral value.
PyNum(n) == [t |-> "num", v |-> <<n>>]

\* float('nan'): what pandas stores where a record has no value.
PyNaN == [t |-> "nan", v |-> <<>>]

\* Python's None as a dataset value (JSON null).
PyNone == [t |-> "NoneType", v |-> <<>>]

\* How a call ends: it returns a value or raises an exception.
Return(v) == [exc |-> "", ret |-> v]

Raise(e) == [exc |-> e, ret |-> <<>>]

UpperCase == <<"A", "B", "C", "D", "E", "F", "G", "H", "I", "J", "K", "L", "M",
               "N", "O", "P", "Q", "R", "S", "T", "U", "V", "W", "X", "Y", "Z">>

LowerCase == <<"a", "b", "c", "d", "e", "f", "g", "h", "i", "j", "k", "l", "m",
               "n", "o", "p", "q", "r", "s", "t", "u", "v", "w", "x", "y", "z">>

Digits == <<"0", "1", "2", "3", "4", "5", "6", "7", "8", "9">>

\* c.isdigit() of one character.
IsDigit(c) == c \in {"0", "1", "2", "3", "4", "5", "6", "7", "8", "9"}

\* The lower-case letter of each upper-case letter.
ToLower == [c \in {UpperCase[i] : i \in 1..26} |->
              LowerCase[CHOOSE i \in 1..26 : UpperCase[i] = c]] @@ <<>>

LowerChar(c) == IF c \in DOMAIN ToLower THEN ToLower[c] ELSE c

\* str.lower()
Lower(chars) == [i \in 1..Len(chars) |-> LowerChar(chars[i])]

\* str.split(): the maximal runs of characters other than the space.
RECURSIVE SplitFrom(_, _, _)
SplitFrom(chars, i, word) ==
  IF i > Len(chars)
    THEN IF word = <<>> THEN <<>> ELSE <<word>>
    ELSE IF chars[i] = " "
      THEN (IF word = <<>> THEN <<>> ELSE <<word>>) \o SplitFrom(chars, i + 1, <<>>)
      ELSE SplitFrom(chars, i + 1, Append(word, chars[i]))

Split(chars) == SplitFrom(chars, 1, <<>>)

\* " ".join(parts)
RECURSIVE Join(_)
Join(parts) ==
  IF parts = <<>> THEN <<>>
  ELSE IF Len(parts) = 1 THEN parts[1]
  ELSE parts[1] \o <<" ">> \o Join(Tail(parts))

----------------------------------------------------------------------------
\* AppState

S_actinoid == <<"a", "c", "t", "i", "n", "o", "i", "d">>

S_alkali_metal == <<"a", "l", "k", "a", "l", "i", " ", "m", "e", "t", "a", "l">>

S_alkaline_earth_metal == <<"a", "l", "k", "a", "l", "i", "n", "e", " ", "e", "a", "r", "t", "h", " ", "m", "e", "t", "a", "l">>

S_halogen == <<"h", "a", "l", "o", "g", "e", "n">>

S_lanthanoid == <<"l", "a", "n", "t", "h", "a", "n", "o", "i", "d">>

S_metalloid == <<"m", "e", "t", "a", "l", "l", "o", "i", "d">>

S_noble_gas == <<"n", "o", "b", "l", "e", " ", "g", "a", "s">>

S_nonmetal == <<"n", "o", "n", "m", "e", "t", "a", "l">>

S_post_transition_metal == <<"p", "o", "s", "t", "-", "t", "r", "a", "n", "s", "i", "t", "i", "o", "n", " ", "m", "e", "t", "a", "l">>

S_transition_metal == <<"t", "r", "a", "n", "s", "i", "t", "i", "o", "n", " ", "m", "e", "t", "a", "l">>

S_unknown == <<"u", "n", "k", "n", "o", "w", "n">>

category_colors ==
  (S_alkali_metal :> "#ff8a65") @@ (S_alkaline_earth_metal :> "#ffb74d") @@
  (S_transition_metal :> "#ffd54f") @@ (S_post_transition_metal :> "#dce775") @@
  (S_metalloid :> "#aed581") @@ (S_nonmetal :> "#4fc3f7") @@
  (S_halogen :> "#80deea") @@ (S_noble_gas :> "#9575cd") @@
  (S_lanthanoid :> "#f48fb1") @@ (S_actinoid :> "#f06292") @@
  (S_unknown :> "#e0e0e0")

\* The colors of the table.
Colors == {category_colors[k] : k \in DOMAIN category_colors}

\* dict.get(key, default)
DictGet(dict, key, default) == IF key \in DOMAIN dict THEN dict[key] ELSE default

\* AppState.get_element_color: category.lower() exists on a str only.
get_element_color(category) ==
  IF category.t # "str"
    THEN Raise("AttributeError")
    ELSE Return(DictGet(category_colors, Lower(category.v), category_colors[S_unknown]))

----------------------------------------------------------------------------
\* The datasets.

\* The built-in dataset of load_element_data's except branch.
FallbackElements ==
  <<
    [name |-> <<"H", "y", "d", "r", "o", "g", "e", "n">>, symbol |-> <<"H">>, number |-> 1, category |-> PyStr(<<"n", "o", "n", "m", "e", "t", "a", "l">>),
     period |-> 1, group |-> PyNum(1), phase |-> PyStr(<<"g", "a", "s">>), atomic_mass |-> 1008,
     electron_configuration |-> PyStr(<<"1", "s", "1">>)],
    [name |-> <<"H", "e", "l", "i", "u", "m">>, symbol |-> <<"H", "e">>, number |-> 2, category |-> PyStr(<<"n", "o", "b", "l", "e", " ", "g", "a", "s">>),
     period |-> 1, group |-> PyNum(18), phase |-> PyStr(<<"g", "a", "s">>), atomic_mass |-> 4003,
     electron_configuration |-> PyStr(<<"1", "s", "2">>)],
    [name |-> <<"L", "i", "t", "h", "i", "u", "m">>, symbol |-> <<"L", "i">>, number |-> 3, category |-> PyStr(<<"a", "l", "k", "a", "l", "i", " ", "m", "e", "t", "a", "l">>),
     period |-> 2, group |-> PyNum(1), phase |-> PyStr(<<"s", "o", "l", "i", "d">>), atomic_mass |-> 6940,
     electron_configuration |-> PyStr(<<"1", "s", "2", " ", "2", "s", "1">>)],
    [name |-> <<"C", "a", "r", "b", "o", "n">>, symbol |-> <<"C">>, number |-> 6, category |-> PyStr(<<"n", "o", "n", "m", "e", "t", "a", "l">>),
     period |-> 2, group |-> PyNum(14), phase |-> PyStr(<<"s", "o", "l", "i", "d">>), atomic_mass |-> 12011,
     electron_configuration |-> PyStr(<<"1", "s", "2", " ", "2", "s", "2", " ", "2", "p", "2">>)],
    [name |-> <<"O", "x", "y", "g", "e", "n">>, symbol |-> <<"O">>, number |-> 8, category |-> PyStr(<<"n", "o", "n", "m", "e", "t", "a", "l">>),
     period |-> 2, group |-> PyNum(16), phase |-> PyStr(<<"g", "a", "s">>), atomic_mass |-> 15999,
     electron_configuration |-> PyStr(<<"1", "s", "2", " ", "2", "s", "2", " ", "2", "p", "4">>)]
  >>

\* An upstream payload: an excerpt of the reference table, its f-block members stored with group 3 in periods 6 and 7.
ReferenceElements ==
  <<
    [name |-> <<"H", "y", "d", "r", "o", "g", "e", "n">>, symbol |-> <<"H">>, number |-> 1, category |-> PyStr(<<"d", "i", "a", "t", "o", "m", "i", "c", " ", "n", "o", "n", "m", "e", "t", "a", "l">>),
     period |-> 1, group |-> PyNum(1), phase |-> PyStr(<<"G", "a", "s">>), atomic_mass |-> 1008,
     electron_configuration |-> PyStr(<<"1", "s", "1">>)],
    [name |-> <<"M", "e", "r", "c", "u", "r", "y">>, symbol |-> <<"H", "g">>, number |-> 80, category |-> PyStr(<<"t", "r", "a", "n", "s", "i", "t", "i", "o", "n", " ", "m", "e", "t", "a", "l">>),
     period |-> 6, group |-> PyNum(12), phase |-> PyStr(<<"L", "i", "q", "u", "i", "d">>), atomic_mass |-> 200592,
     electron_configuration |-> PyStr(<<"[", "X", "e", "]", " ", "4", "f", "1", "4", " ", "5", "d", "1", "0", " ", "6", "s", "2">>)],
    [name |-> <<"L", "a", "n", "t", "h", "a", "n", "u", "m">>, symbol |-> <<"L", "a">>, number |-> 57, category |-> PyStr(<<"l", "a", "n", "t", "h", "a", "n", "i", "d", "e">>),
     period |-> 6, group |-> PyNum(3), phase |-> PyStr(<<"S", "o", "l", "i", "d">>), atomic_mass |-> 138000,
     electron_configuration |-> PyStr(<<"[", "X", "e", "]", " ", "5", "d", "1", " ", "6", "s", "2">>)],
    [name |-> <<"L", "u", "t", "e", "t", "i", "u", "m">>, symbol |-> <<"L", "u">>, number |-> 71, category |-> PyStr(<<"l", "a", "n", "t", "h", "a", "n", "i", "d", "e">>),
     period |-> 6, group |-> PyNum(3), phase |-> PyStr(<<"S", "o", "l", "i", "d">>), atomic_mass |-> 173000,
     electron_configuration |-> PyStr(<<"[", "X", "e", "]", " ", "4", "f", "1", "4", " ", "5", "d", "1", " ", "6", "s", "2">>)],
    [name |-> <<"A", "c", "t", "i", "n", "i", "u", "m">>, symbol |-> <<"A", "c">>, number |-> 89, category |-> PyStr(<<"a", "c", "t", "i", "n", "i", "d", "e">>),
     period |-> 7, group |-> PyNum(3), phase |-> PyStr(<<"S", "o", "l", "i", "d">>), atomic_mass |-> 227000,
     electron_configuration |-> PyStr(<<"[", "R", "n", "]", " ", "6", "d", "1", " ", "7", "s", "2">>)],
    [name |-> <<"L", "a", "w", "r", "e", "n", "c", "i", "u", "m">>, symbol |-> <<"L", "r">>, number |-> 103, category |-> PyStr(<<"a", "c", "t", "i", "n", "i", "d", "e">>),
     period |-> 7, group |-> PyNum(3), phase |-> PyStr(<<"S", "o", "l", "i", "d">>), atomic_mass |-> 262000,
     electron_configuration |-> PyStr(<<"[", "R", "n", "]", " ", "5", "f", "1", "4", " ", "7", "s", "2", " ", "7", "p", "1">>)],
    [name |-> <<"O", "g", "a", "n", "e", "s", "s", "o", "n">>, symbol |-> <<"O", "g">>, number |-> 118, category |-> PyStr(<<"u", "n", "k", "n", "o", "w", "n", ",", " ", "p", "r", "e", "d", "i", "c", "t", "e", "d", " ", "t", "o", " ", "b", "e", " ", "n", "o", "b", "l", "e", " ", "g", "a", "s">>),
     period |-> 7, group |-> PyNum(18), phase |-> PyStr(<<"S", "o", "l", "i", "d">>), atomic_mass |-> 294000,
     electron_configuration |-> PyStr(<<"[", "R", "n", "]", " ", "5", "f", "1", "4", " ", "6", "d", "1", "0", " ", "7", "s", "2", " ", "7", "p", "6">>)]
  >>

\* An upstream payload in which four elements carry no group and one of them no phase.
NoGroupElements ==
  <<
    [name |-> <<"C", "a", "r", "b", "o", "n">>, symbol |-> <<"C">>, number |-> 6, category |-> PyStr(<<"p", "o", "l", "y", "a", "t", "o", "m", "i", "c", " ", "n", "o", "n", "m", "e", "t", "a", "l">>),
     period |-> 2, group |-> PyNum(14), phase |-> PyStr(<<"S", "o", "l", "i", "d">>), atomic_mass |-> 12011,
     electron_configuration |-> PyStr(<<"1", "s", "2", " ", "2", "s", "2", " ", "2", "p", "2">>)],
    [name |-> <<"L", "a", "n", "t", "h", "a", "n", "u", "m">>, symbol |-> <<"L", "a">>, number |-> 57, category |-> PyStr(<<"l", "a", "n", "t", "h", "a", "n", "i", "d", "e">>),
     period |-> 6, group |-> PyNaN, phase |-> PyStr(<<"S", "o", "l", "i", "d">>), atomic_mass |-> 138000,
     electron_configuration |-> PyStr(<<"[", "X", "e", "]", " ", "5", "d", "1", " ", "6", "s", "2">>)],
    [name |-> <<"M", "e", "r", "c", "u", "r", "y">>, symbol |-> <<"H", "g">>, number |-> 80, category |-> PyStr(<<"t", "r", "a", "n", "s", "i", "t", "i", "o", "n", " ", "m", "e", "t", "a", "l">>),
     period |-> 6, group |-> PyNaN, phase |-> PyStr(<<"L", "i", "q", "u", "i", "d">>), atomic_mass |-> 200592,
     electron_configuration |-> PyStr(<<"[", "X", "e", "]", " ", "4", "f", "1", "4", " ", "5", "d", "1", "0", " ", "6", "s", "2">>)],
    [name |-> <<"A", "c", "t", "i", "n", "i", "u", "m">>, symbol |-> <<"A", "c">>, number |-> 89, category |-> PyStr(<<"a", "c", "t", "i", "n", "i", "d", "e">>),
     period |-> 7, group |-> PyNaN, phase |-> PyStr(<<"S", "o", "l", "i", "d">>), atomic_mass |-> 227000,
     electron_configuration |-> PyStr(<<"[", "R", "n", "]", " ", "6", "d", "1", " ", "7", "s", "2">>)],
    [name |-> <<"L", "a", "w", "r", "e", "n", "c", "i", "u", "m">>, symbol |-> <<"L", "r">>, number |-> 103, category |-> PyStr(<<"a", "c", "t", "i", "n", "i", "d", "e">>),
     period |-> 7, group |-> PyNaN, phase |-> PyNaN, atomic_mass |-> 262000,
     electron_configuration |-> PyStr(<<"[", "R", "n", "]", " ", "5", "f", "1", "4", " ", "7", "s", "2", " ", "7", "p", "1">>)]
  >>

\* An upstream payload in which no element carries electron_configuration.
NoConfigElements ==
  <<
    [name |-> <<"H", "y", "d", "r", "o", "g", "e", "n">>, symbol |-> <<"H">>, number |-> 1, category |-> PyStr(<<"d", "i", "a", "t", "o", "m", "i", "c", " ", "n", "o", "n", "m", "e", "t", "a", "l">>),
     period |-> 1, group |-> PyNum(1), phase |-> PyStr(<<"G", "a", "s">>), atomic_mass |-> 1008,
     electron_configuration |-> PyNaN],
    [name |-> <<"H", "e", "l", "i", "u", "m">>, symbol |-> <<"H", "e">>, number |-> 2, category |-> PyStr(<<"n", "o", "b", "l", "e", " ", "g", "a", "s">>),
     period |-> 1, group |-> PyNum(18), phase |-> PyStr(<<"G", "a", "s">>), atomic_mass |-> 4003,
     electron_configuration |-> PyNaN]
  >>

----------------------------------------------------------------------------
\* load_element_data

\* The text of an upstream response: whether it parses as JSON, the keys of
\* the object it parses to, and the value under the key "elements".
JsonText(elements) == [json |-> TRUE, keys |-> {"elements"}, elements |-> elements]

MalformedText == [json |-> FALSE, keys |-> {}, elements |-> <<>>]

NoElementsKeyText == [json |-> TRUE, keys |-> {"message"}, elements |-> <<>>]

\* requests.get(url) raised: no response.
ConnectionFailed == [conn |-> "error", status_code |-> 0, text |-> MalformedText]

HttpResponse(code, text) == [conn |-> "ok", status_code |-> code, text |-> text]

\* What the upstream can answer to one request.
UpstreamResponses ==
  { ConnectionFailed,
    HttpResponse(500, JsonText(ReferenceElements)),
    HttpResponse(200, MalformedText),
    HttpResponse(200, NoElementsKeyText),
    HttpResponse(200, JsonText(NoConfigElements)),
    HttpResponse(200, JsonText(ReferenceElements)),
    HttpResponse(200, JsonText(NoGroupElements)) }

\* One part of a configuration, formatted: "2p4" becomes "2p<sup>4</sup>".
FormatPart(part) ==
  IF IsDigit(part[1])
    THEN SubSeq(part, 1, 2) \o <<"<", "s", "u", "p", ">">> \o SubSeq(part, 3, Len(part))
         \o <<"<", "/", "s", "u", "p", ">">>
    ELSE part

format_electron_configuration(config) ==
  LET parts == Split(config)
  IN  Join([i \in 1..Len(parts) |-> FormatPart(parts[i])])

\* The lambda of the apply call.
electron_display(x) ==
  IF x.t = "str" THEN PyStr(format_electron_configuration(x.v)) ELSE PyStr(<<>>)

\* pd.DataFrame(records) has a column for a key iff some record has the key.
HasColumn(records, key) == \E i \in 1..Len(records) : records[i][key] # PyNaN

\* The try block.
TryLoad(response) ==
  IF response.conn # "ok" THEN Raise("ConnectionError")
  ELSE IF response.status_code # 200 THEN Raise("Exception")
  ELSE IF ~response.text.json THEN Raise("JSONDecodeError")
  ELSE IF "elements" \notin response.text.keys THEN Raise("KeyError")
  ELSE IF ~HasColumn(response.text.elements, "electron_configuration") THEN Raise("KeyError")
  ELSE LET elements == response.text.elements
       IN  Return([i \in 1..Len(elements) |->
                     elements[i] @@
                     ("electron_display" :> electron_display(elements[i].electron_configuration))])

\* A handler that names the errors of the request only.
IsException_RequestOnly(exc) == exc \in {"Exception", "ConnectionError"}

\* The exceptions `except Exception` catches: every class named in the model.
IsException(exc) ==
  exc \in {"Exception", "ConnectionError", "JSONDecodeError", "KeyError", "TypeError",
           "AttributeError", "ValueError", "IndexError"}

\* The body of load_element_data: the try block, and the except branch with
\* its warning and the built-in dataset.
load_element_data(response) ==
  LET tried == TryLoad(response)
  IN  IF tried.exc = ""
        THEN [exc |-> "", ret |-> tried.ret, warning |-> FALSE]
        ELSE IF IsException(tried.exc)
          THEN [exc |-> "", ret |-> FallbackElements, warning |-> TRUE]
          ELSE [exc |-> tried.exc, ret |-> <<>>, warning |-> FALSE]

\* @st.cache_data(ttl=3600)
TTL == 3600

\* The clock advances by half a ttl at a time.
TickStep == TTL \div 2

\* A cache that serves nothing.
CacheHit_Never(entry, time) == FALSE

\* An entry of the cache serves a call made less than ttl after it was stored.
CacheHit(entry, time) == entry # None /\ time - entry[1].at < TTL

\* The calls of load_element_data through the cache: the dataset returned, the
\* cache afterwards and whether the body ran.
CachedLoad(entry, time, response) ==
  IF CacheHit(entry, time)
    THEN [exc |-> "", ret |-> entry[1].value, cache |-> entry, ran |-> FALSE]
    ELSE LET r == load_element_data(response)
         IN  [exc |-> r.exc, ret |-> r.ret, ran |-> TRUE, warning |-> r.warning,
              cache |-> IF r.exc = "" THEN Some([at |-> time, value |-> r.ret]) ELSE entry]

----------------------------------------------------------------------------
\* The sidebar of main: the four multiselects, the filter and the search.

\* The values of one column.
Column(rows, key) == {rows[i][key] : i \in 1..Len(rows)}

\* Series.dropna().unique()
DropNa(values) == {v \in values : v.t \notin {"nan", "NoneType"}}

\* sorted(values): ordering a str against a float or None is a TypeError.
Sorted(values) ==
  IF (\E v \in values : v.t = "str") /\ (\E v \in values : v.t # "str")
    THEN Raise("TypeError")
    ELSE Return(values)

\* st.multiselect(label, options, default=options): the stored choice of the
\* user as long as the widget is offered the same options, else the default.
Multiselect(widget, options) ==
  IF widget.options = options THEN widget.value ELSE options

\* rows[mask]
RECURSIVE BoolIndex(_, _)
BoolIndex(rows, mask) ==
  IF rows = <<>> THEN <<>>
  ELSE (IF Head(mask) THEN <<Head(rows)>> ELSE <<>>) \o BoolIndex(Tail(rows), Tail(mask))

\* re.compile(pattern) fails on a pattern that repeats nothing, or that opens
\* a group or a set it does not close (or closes one it did not open).
Count(chars, c) == Cardinality({j \in 1..Len(chars) : chars[j] = c})

CompileFails(pattern) ==
  \/ pattern # <<>> /\ pattern[1] \in {"*", "+", "?"}
  \/ Count(pattern, "(") # Count(pattern, ")")
  \/ Count(pattern, "[") # Count(pattern, "]")

\* pattern, made of ordinary characters and of ".", matches text at position i.
MatchesAt(text, pattern, i) ==
  /\ i + Len(pattern) - 1 <= Len(text)
  /\ \A j \in 1..Len(pattern) : pattern[j] = "." \/ text[i + j - 1] = pattern[j]

\* re.search(pattern, text) finds a match.
StrContains(text, pattern) == \E i \in 1..(Len(text) + 1) : MatchesAt(text, pattern, i)

\* The search box applied to the rows the multiselects kept:
\* Series.str.contains compiles the term as a regular expression.
Search(rows, search_term) ==
  IF search_term = <<>>
    THEN Return(rows)
    ELSE LET term == Lower(search_term)
         IN  IF CompileFails(term)
               THEN Raise("error")
               ELSE Return(BoolIndex(rows, [i \in 1..Len(rows) |->
                      \/ StrContains(Lower(rows[i].name), term)
                      \/ StrContains(Lower(rows[i].symbol), term)]))

\* The sidebar block: the widgets afterwards and filtered_df.
Sidebar(rows, stored) ==
  LET categories == Sorted(Column(rows, "category"))
      phases == Sorted(DropNa(Column(rows, "phase")))
      periods == {PyNum(rows[i].period) : i \in 1..Len(rows)}
      groups == DropNa(Column(rows, "group"))
  IN  IF categories.exc # "" THEN [exc |-> categories.exc, widgets |-> stored, filtered_df |-> <<>>]
      ELSE
      LET selected_categories == Multiselect(stored.category, categories.ret)
          selected_phases == Multiselect(stored.phase, phases.ret)
          selected_periods == Multiselect(stored.period, periods)
          selected_groups == Multiselect(stored.group, groups)
          shown == [category |-> [options |-> categories.ret, value |-> selected_categories],
                    phase |-> [options |-> phases.ret, value |-> selected_phases],
                    period |-> [options |-> periods, value |-> selected_periods],
                    group |-> [options |-> groups, value |-> selected_groups],
                    search |-> stored.search]
          kept == BoolIndex(rows, [i \in 1..Len(rows) |->
                    /\ rows[i].category \in selected_categories
                    /\ rows[i].phase \in selected_phases
                    /\ PyNum(rows[i].period) \in selected_periods
                    /\ rows[i].group \in selected_groups])
          found == Search(kept, stored.search)
      IN  [exc |-> found.exc, widgets |-> shown,
           filtered_df |-> IF found.exc = "" THEN found.ret ELSE <<>>]

----------------------------------------------------------------------------
\* create_periodic_table_grid

\* str(n) of an int
RECURSIVE NatToChars(_)
NatToChars(n) ==
  IF n < 10 THEN <<Digits[n + 1]>> ELSE NatToChars(n \div 10) \o <<Digits[(n % 10) + 1]>>

IntToChars(n) == IF n < 0 THEN <<"-">> \o NatToChars(0 - n) ELSE NatToChars(n)

\* str(value), as an f-string writes it
Str(value) == IF value.t = "num" THEN IntToChars(value.v[1]) ELSE value.v

\* str.isdigit()
IsDigitStr(chars) == chars # <<>> /\ \A i \in 1..Len(chars) : IsDigit(chars[i])

\* int(chars) of a string of digits
RECURSIVE ParseNat(_)
ParseNat(chars) ==
  IF chars = <<>> THEN 0
  ELSE 10 * ParseNat(SubSeq(chars, 1, Len(chars) - 1))
       + ((CHOOSE i \in 1..10 : Digits[i] = chars[Len(chars)]) - 1)

\* The two block labels of the main loop.
LanthanidesLabel ==
  [number |-> PyStr(<<"5", "7", "-", "7", "1">>), symbol |-> <<"L", "a", "-", "L", "u">>,
   name |-> <<"L", "a", "n", "t", "h", "a", "n", "i", "d", "e", "s">>,
   category |-> PyStr(S_lanthanoid)]

ActinidesLabel ==
  [number |-> PyStr(<<"8", "9", "-", "1", "0", "3">>), symbol |-> <<"A", "c", "-", "L", "r">>,
   name |-> <<"A", "c", "t", "i", "n", "i", "d", "e", "s">>,
   category |-> PyStr(S_actinoid)]

\* A row of the DataFrame as the loops see it: number is an int.
AsElement(row) ==
  [number |-> PyNum(row.number), symbol |-> row.symbol, name |-> row.name,
   category |-> row.category]

\* The first of the rows at the indices given, if any.
First(rows, indices) ==
  IF indices = {} THEN None
  ELSE Some(rows[CHOOSE i \in indices : \A j \in indices : i <= j])

\* The rows of the DataFrame whose period is row.
InPeriod(elements_rows, row) ==
  {i \in 1..Len(elements_rows) : elements_rows[i].period = row}

\* The element of the cell at (row, col) of the main loop: the first row of
\* the DataFrame with this period and group, unless the cell is that of a
\* block label. in_period is InPeriod(elements_rows, row).
MainElement(elements_rows, in_period, row, col) ==
  LET found == First(elements_rows, {i \in in_period : elements_rows[i].group = PyNum(col)})
  IN  IF row = 6 /\ col = 3 THEN Some(LanthanidesLabel)
      ELSE IF row = 7 /\ col = 3 THEN Some(ActinidesLabel)
      ELSE IF found = None THEN None
      ELSE Some(AsElement(found[1]))

\* number in filtered_elements['number'].values
InFiltered(filtered_rows, n) == \E i \in 1..Len(filtered_rows) : filtered_rows[i].number = n

\* Whether the main loop dims the cell of element.
MainFiltered(element, filtered_rows) ==
  /\ Len(filtered_rows) > 0
  /\ IsDigitStr(Str(element.number))
  /\ ~InFiltered(filtered_rows, ParseNat(Str(element.number)))

\* Whether the two f-block loops dim the cell of element.
BlockFiltered(element, filtered_rows) ==
  /\ Len(filtered_rows) > 0
  /\ ~InFiltered(filtered_rows, element.number.v[1])

\* The <div class="element"> of an element: its id, the argument written into
\* onclick="handleElementClick(...)", what it shows and how.
ElementCell(element, filtered) ==
  [kind |-> "element",
   id |-> Str(element.number),
   onclick |-> Str(element.number),
   symbol |-> element.symbol,
   name |-> element.name,
   color |-> get_element_color(element.category),
   opacity |-> IF filtered THEN "0.35" ELSE "1.0"]

\* The other children of the grid container: the empty cell of the main loop,
\* the flex-basis div written after each period and before the actinides, and
\* the div that spans the 18 columns ahead of the lanthanides.
EmptyCell == [kind |-> "empty"]

BreakDiv == [kind |-> "break"]

SpanDiv == [kind |-> "span"]

\* The cell the main loop writes at (row, col).
MainCell(elements_rows, filtered_rows, in_period, row, col) ==
  LET element == MainElement(elements_rows, in_period, row, col)
  IN  IF element = None
        THEN EmptyCell
        ELSE ElementCell(element[1], MainFiltered(element[1], filtered_rows))

\* The cells of one period, and the break after them.
MainRow(elements_rows, filtered_rows, in_period, row) ==
  [col \in 1..18 |-> MainCell(elements_rows, filtered_rows, in_period, row, col)]
  \o <<BreakDiv>>

\* The main loop: periods 1..9, groups 1..18.
RECURSIVE MainRows(_, _, _)
MainRows(elements_rows, filtered_rows, row) ==
  IF row > 9 THEN <<>>
  ELSE MainRow(elements_rows, filtered_rows, InPeriod(elements_rows, row), row)
       \o MainRows(elements_rows, filtered_rows, row + 1)

\* One f-block loop: a cell for each number of first..last the dataset holds.
RECURSIVE BlockCells(_, _, _, _)
BlockCells(elements_rows, filtered_rows, first, last) ==
  IF first > last THEN <<>>
  ELSE LET found == First(elements_rows,
                          {i \in 1..Len(elements_rows) : elements_rows[i].number = first})
       IN  (IF found = None THEN <<>>
            ELSE LET element == AsElement(found[1])
                 IN  <<ElementCell(element, BlockFiltered(element, filtered_rows))>>)
           \o BlockCells(elements_rows, filtered_rows, first + 1, last)

\* The children of the grid container in the order the three loops write
\* them, each element cell with the outcome of its get_element_color call.
GridItems(elements_rows, filtered_rows) ==
  MainRows(elements_rows, filtered_rows, 1)
  \o <<SpanDiv>>
  \o BlockCells(elements_rows, filtered_rows, 57, 71)
  \o <<BreakDiv>>
  \o BlockCells(elements_rows, filtered_rows, 89, 103)

\* create_periodic_table_grid: the children written, or the exception of a
\* get_element_color call that failed.
create_periodic_table_grid(elements_rows, filtered_rows) ==
  LET items == GridItems(elements_rows, filtered_rows)
      Raised(i) == items[i].kind = "element" /\ items[i].color.exc # ""
  IN  IF \E i \in 1..Len(items) : Raised(i)
        THEN Raise(items[CHOOSE i \in 1..Len(items) : Raised(i)].color.exc)
        ELSE Return([i \in 1..Len(items) |->
                       IF items[i].kind = "element"
                         THEN [items[i] EXCEPT !.color = items[i].color.ret]
                         ELSE items[i]])

\* handleElementClick
\* The value of the argument text of onclick, as JavaScript evaluates it: a
\* number, or a difference of two numbers.
JsValue(chars) ==
  IF \E i \in 2..Len(chars) : chars[i] = "-"
    THEN LET i == CHOOSE k \in 2..Len(chars) : chars[k] = "-"
         IN  ParseNat(SubSeq(chars, 1, i - 1)) - ParseNat(SubSeq(chars, i + 1, Len(chars)))
    ELSE ParseNat(chars)

\* The grid the browser lays out: grid-template-columns: repeat(18, 70px),
\* every child of the container placed in the next free cell in the order
\* written, the spanning div in the next row that is free in all 18 columns.
GridColumns == 18

\* The children from i on that fill one row: those up to the 18th, or up to
\* the spanning div.
RowLength(items, i) ==
  LET fits == {n \in 1..GridColumns :
                 \A k \in 0..(n - 1) : i + k <= Len(items) /\ items[i + k].kind # "span"}
  IN  CHOOSE n \in fits : \A m \in fits : m <= n

RECURSIVE PlaceFrom(_, _, _)
PlaceFrom(items, i, row) ==
  IF i > Len(items) THEN <<>>
  ELSE IF items[i].kind = "span"
    THEN <<[row |-> row, col |-> 1]>> \o PlaceFrom(items, i + 1, row + 1)
    ELSE LET n == RowLength(items, i)
         IN  [col \in 1..n |-> [row |-> row, col |-> col]] \o PlaceFrom(items, i + n, row + 1)

\* The (row, col) of each child.
Place(items) == PlaceFrom(items, 1, 1)

----------------------------------------------------------------------------
\* display_element_details

\* str.title() exists on a str only; so do the other str methods.
IsStr(value) == value.t = "str"

\* The view before an element is selected: st.info's prompt and nothing else.
PromptView == [view |-> "prompt", number |-> None, color |-> "", tables |-> {}, charts |-> {}]

\* Nothing rendered: the script has not reached the details tab.
NoView == [view |-> "none", number |-> None, color |-> "", tables |-> {}, charts |-> {}]

\* The card, the tabs, the two tables and the two charts of an element.
ElementView(element, color) ==
  [view |-> "element", number |-> Some(element.number), color |-> color,
   tables |-> {"physical", "chemical"}, charts |-> {"electron_shell", "molecular"}]

display_element_details(element) ==
  IF element = None
    THEN Return(PromptView)
    ELSE LET color == get_element_color(element[1].category)
         IN  IF color.exc # "" THEN Raise(color.exc)
             ELSE IF ~IsStr(element[1].phase) THEN Raise("AttributeError")
             ELSE Return(ElementView(element[1], color.ret))

----------------------------------------------------------------------------
\* main

\* state = AppState(), at the top of the script.
AppState == [selected_element |-> None, elements_data |-> None]

\* elements_df['number'].values
Numbers(rows) == {rows[j].number : j \in 1..Len(rows)}

\* A lookup that takes the first row of the DataFrame, whatever its number.
RowOfNumber_FirstRow(elements_rows, selected_num) == Some(elements_rows[1])

\* elements_df[elements_df['number'] == selected_num].iloc[0]
\*   if selected_num in elements_df['number'].values else None
RowOfNumber(elements_rows, selected_num) ==
  First(elements_rows, {i \in 1..Len(elements_rows) : elements_rows[i].number = selected_num})

\* The block under "Check for element selection": state.selected_element
\* afterwards.
Select(state_selected, session_number, elements_rows) ==
  IF session_number # None /\ session_number # Some(0)
    THEN LET row == RowOfNumber(elements_rows, session_number[1])
         IN  IF row # None THEN row ELSE state_selected
    ELSE state_selected

\* What a script run leaves when it ends at an exception.
Failed(exc, loaded, rows, widgets_shown, filtered) ==
  [exc |-> exc, loaded |-> loaded, elements_df |-> rows, widgets |-> widgets_shown,
   filtered_df |-> filtered, grid |-> <<>>, selected_element |-> AppState.selected_element, details |-> NoView]

\* One run of the script, top to bottom.
RunScript(time, entry, response, session_number, widgets_before) ==
  LET loaded == CachedLoad(entry, time, response)
  IN  IF loaded.exc # "" THEN Failed(loaded.exc, loaded, <<>>, widgets_before, <<>>)
      ELSE
      LET side == Sidebar(loaded.ret, widgets_before)
      IN  IF side.exc # "" THEN Failed(side.exc, loaded, loaded.ret, side.widgets, <<>>)
      ELSE
      LET made == create_periodic_table_grid(loaded.ret, side.filtered_df)
      IN  IF made.exc # "" THEN Failed(made.exc, loaded, loaded.ret, side.widgets, side.filtered_df)
      ELSE
      LET selected == Select(AppState.selected_element, session_number, loaded.ret)
          shown == display_element_details(selected)
      IN  [exc |-> shown.exc, loaded |-> loaded, elements_df |-> loaded.ret,
           widgets |-> side.widgets, filtered_df |-> side.filtered_df, grid |-> made.ret, selected_element |-> selected,
           details |-> IF shown.exc = "" THEN shown.ret ELSE NoView]

----------------------------------------------------------------------------
\* The session.

\* The widgets before the first run: nothing offered, nothing typed.
NoWidget == [options |-> {}, value |-> {}]

InitialWidgets ==
  [category |-> NoWidget, phase |-> NoWidget, period |-> NoWidget, group |-> NoWidget,
   search |-> <<>>]

\* What the user types into the search box.
SearchTerms == {<<>>, <<"H">>, <<"(">>}

\* What the user can make of a multiselect in one change: all of its options
\* or none of them.
Choices(widget) == {widget.options, {}}

\* The widgets of the sidebar that are off their default.
Narrowed(shown) ==
  {k \in {"category", "phase", "period", "group"} :
     shown[k].value # shown[k].options}
  \cup (IF shown.search # <<>> THEN {"search"} ELSE {})

\* The user narrows the table with one widget at a time.
OneAtATime(shown) == \A a, b \in Narrowed(shown) : a = b

\* A session in which the number of the message is written to the key.
SessionAfterClick_Received(session_number, number) == Some(number)

\* st.session_state.selected_element_number once handleElementClick has posted
\* its message: the script registers nothing that receives it and assigns the
\* key only where it initialises it, to None.
SessionAfterClick(session_number, number) == session_number

\* The upstream is asked only when the cache does not serve the call.
Asked(entry, time) == IF CacheHit(entry, time) THEN {ConnectionFailed} ELSE UpstreamResponses

\* A session before the script has run.
NewSession ==
  /\ now = 0
  /\ cache = None
  /\ last_fetch = None
  /\ elements_df = <<>>
  /\ widgets = InitialWidgets
  /\ filtered_df = <<>>
  /\ selected_element_number = None
  /\ selected_element = AppState.selected_element
  /\ grid = <<>>
  /\ details = NoView
  /\ run_error = ""
  /\ message = None
  /\ at_click = None
  /\ run_since_click = FALSE

Init ==
  /\ NewSession
  /\ color_arg = PyNaN
  /\ color_ret = None

\* The script runs with the widgets as given; the session and the cache take
\* what the run leaves.
Run(response, widgets_before) ==
  \E r \in {RunScript(now, cache, response, selected_element_number, widgets_before)} :
      /\ cache' = r.loaded.cache
      /\ last_fetch' = IF r.loaded.ran
                         THEN Some([at |-> now, response |-> response,
                                    warning |-> r.loaded.warning, exc |-> r.loaded.exc])
                         ELSE last_fetch
      /\ elements_df' = r.elements_df
      /\ widgets' = r.widgets
      /\ filtered_df' = r.filtered_df
      /\ selected_element' = r.selected_element
      /\ grid' = r.grid
      /\ details' = r.details
      /\ run_error' = r.exc
      /\ LET first == message # None /\ ~run_since_click /\ widgets_before = widgets
         IN  /\ message' = IF first THEN message ELSE None
             /\ at_click' = IF first THEN at_click ELSE None
             /\ run_since_click' = first
      /\ UNCHANGED <<now, selected_element_number, color_arg, color_ret>>

\* The user, or the browser, re-runs the script.
Rerun == \E response \in Asked(cache, now) : Run(response, widgets)

\* The sidebar is on the page.
SidebarShown == elements_df # <<>> /\ run_error # "TypeError"

\* The user types a search term; the script re-runs.
ChangeSearch ==
  \E term \in SearchTerms, response \in Asked(cache, now) :
    /\ SidebarShown
    /\ term # widgets.search
    /\ OneAtATime([widgets EXCEPT !.search = term])
    /\ Run(response, [widgets EXCEPT !.search = term])

\* The user changes the choice of a multiselect; the script re-runs.
ChangeMultiselect ==
  \E k \in {"category", "phase", "period", "group"}, response \in Asked(cache, now) :
    \E value \in Choices(widgets[k]) :
      /\ SidebarShown
      /\ value # widgets[k].value
      /\ OneAtATime([widgets EXCEPT ![k].value = value])
      /\ Run(response, [widgets EXCEPT ![k].value = value])

\* The user clicks a cell of the grid that carries the handler.
handleElementClick ==
  \E i \in 1..Len(grid) :
    /\ grid[i].kind = "element"
    /\ LET number == JsValue(grid[i].onclick)
       IN  /\ message' = Some([type |-> "streamlit:setComponentValue", number |-> number])
           /\ selected_element_number' = SessionAfterClick(selected_element_number, number)
    /\ at_click' = Some([details |-> details, selected_element |-> selected_element,
                         numbers |-> Numbers(elements_df),
                         cached_at |-> cache[1].at])
    /\ run_since_click' = FALSE
    /\ UNCHANGED <<now, cache, last_fetch, elements_df, widgets, filtered_df,
                   selected_element, grid, details, run_error, color_arg, color_ret>>

\* Time passes.
Tick ==
  /\ now + TickStep <= MaxTicks * TickStep
  /\ now' = now + TickStep
  /\ UNCHANGED <<cache, last_fetch, elements_df, widgets, filtered_df,
                 selected_element_number, selected_element, grid, details, run_error,
                 message, at_click, run_since_click, color_arg, color_ret>>

Next == Rerun \/ ChangeSearch \/ ChangeMultiselect \/ handleElementClick \/ Tick

Spec == Init /\ [][Next]_vars

----------------------------------------------------------------------------
\* get_element_color on its own: every kind of argument a dataset can hand it.

\* The upper-case letter of each lower-case letter.
ToUpper == [c \in {LowerCase[i] : i \in 1..26} |->
              UpperCase[CHOOSE i \in 1..26 : LowerCase[i] = c]] @@ <<>>

UpperChar(c) == IF c \in DOMAIN ToUpper THEN ToUpper[c] ELSE c

\* A category in capitals, with a capital initial, and with "-" for " ".
Upper(chars) == [i \in 1..Len(chars) |-> UpperChar(chars[i])]

Capitalize(chars) == [i \in 1..Len(chars) |-> IF i = 1 THEN UpperChar(chars[i]) ELSE chars[i]]

Hyphenate(chars) == [i \in 1..Len(chars) |-> IF chars[i] = " " THEN "-" ELSE chars[i]]

\* The categories of the datasets, of the block labels and of the table.
Categories ==
  DOMAIN category_colors
  \cup {v.v : v \in {w \in Column(FallbackElements, "category")
                           \cup Column(ReferenceElements, "category")
                           \cup Column(NoGroupElements, "category") : w.t = "str"}}
  \cup {<<>>, <<"p", "o", "s", "t", " ", "t", "r", "a", "n", "s", "i", "t", "i", "o", "n",
              " ", "m", "e", "t", "a", "l">>}
  \cup {S_unknown \o <<",", " ", "p", "r", "o", "b", "a", "b", "l", "y", " ">> \o S_transition_metal,
        S_transition_metal \o <<",", " ", "s", "y", "n", "t", "h", "e", "t", "i", "c">>}

\* The arguments: each category as written, in capitals, capitalised and
\* hyphenated; and what a record without a category, or with one that is not
\* a string, hands over.
ColorArgs ==
  {PyStr(c) : c \in Categories}
  \cup {PyStr(Upper(c)) : c \in Categories}
  \cup {PyStr(Capitalize(c)) : c \in Categories}
  \cup {PyStr(Hyphenate(c)) : c \in Categories}
  \cup {PyNaN, PyNone, PyNum(0), PyNum(1)}

InitColor ==
  /\ NewSession
  /\ color_arg \in ColorArgs
  /\ color_ret = None

\* state.get_element_color(category)
CallGetElementColor ==
  /\ color_ret = None
  /\ color_ret' = Some(get_element_color(color_arg))
  /\ UNCHANGED <<now, cache, last_fetch, elements_df, widgets, filtered_df,
                 selected_element_number, selected_element, grid, details, run_error,
                 message, at_click, run_since_click, color_arg>>

NextColor == CallGetElementColor

SpecColor == InitColor /\ [][NextColor]_vars

----------------------------------------------------------------------------
\* The selection block of main and display_element_details on their own:
\* every selection the session can hold, against every dataset loaded.

\* The datasets load_element_data returns.
LoadedDatasets ==
  {load_element_data(response).ret : response \in UpstreamResponses}

\* st.session_state.selected_element_number: None, or a number; among them
\* numbers of no element (0, 9999, and the -14 a block label reports).
SelectionNumbers == {-14, 9999} \cup (0..10) \cup {57, 71, 80, 89, 103, 118, 119}

Selections == {None} \cup {Some(n) : n \in SelectionNumbers}

InitDetails ==
  /\ now = 0
  /\ cache = None
  /\ last_fetch = None
  /\ elements_df \in LoadedDatasets
  /\ widgets = InitialWidgets
  /\ filtered_df = <<>>
  /\ selected_element_number \in Selections
  /\ selected_element = AppState.selected_element
  /\ grid = <<>>
  /\ details = NoView
  /\ run_error = ""
  /\ message = None
  /\ at_click = None
  /\ run_since_click = FALSE
  /\ color_arg = PyNaN
  /\ color_ret = None

\* The block under "Check for element selection", then the details tab.
ShowDetails ==
  /\ details = NoView
  /\ run_error = ""
  /\ LET selected == Select(AppState.selected_element, selected_element_number, elements_df)
         shown == display_element_details(selected)
     IN  /\ selected_element' = selected
         /\ details' = IF shown.exc = "" THEN shown.ret ELSE NoView
         /\ run_error' = shown.exc
  /\ UNCHANGED <<now, cache, last_fetch, elements_df, widgets, filtered_df, selected_element_number,
                 grid, message, at_click, run_since_click, color_arg, color_ret>>

NextDetails == ShowDetails

SpecDetails == InitDetails /\ [][NextDetails]_vars

----------------------------------------------------------------------------
\* The sidebar and the grid on their own: one script run for every setting of
\* the widgets, over every dataset loaded.

\* What the user can have made of a multiselect: all of its options, none of
\* them, or all but one.
Narrowings(options) == {options, {}} \cup {options \ {v} : v \in options}

\* What the search box can hold: nothing, text in either case, text that is in
\* no name, and text with punctuation.
FilterSearchTerms ==
  SearchTerms \cup {<<"h", "e">>, <<"z", "z">>, <<".">>}

\* The settings of the sidebar over a dataset.
FilterSettings(rows) ==
  LET shown == Sidebar(rows, InitialWidgets).widgets
      Widget(k, value) == [options |-> shown[k].options, value |-> value]
  IN  {[category |-> Widget("category", c), phase |-> Widget("phase", p),
        period |-> Widget("period", q), group |-> Widget("group", g), search |-> term] :
         c \in Narrowings(shown.category.options),
         p \in Narrowings(shown.phase.options),
         q \in {shown.period.options, {}},
         g \in {shown.group.options, {}},
         term \in FilterSearchTerms}

\* The dataset is in the cache and the widgets are set; the script has not run.
InitFilter ==
  /\ now = 0
  /\ last_fetch = None
  /\ elements_df \in LoadedDatasets
  /\ cache = Some([at |-> 0, value |-> elements_df])
  /\ widgets \in FilterSettings(elements_df)
  /\ filtered_df = <<>>
  /\ selected_element_number = None
  /\ selected_element = AppState.selected_element
  /\ grid = <<>>
  /\ details = NoView
  /\ run_error = ""
  /\ message = None
  /\ at_click = None
  /\ run_since_click = FALSE
  /\ color_arg = PyNaN
  /\ color_ret = None

NextFilter == Rerun

SpecFilter == InitFilter /\ [][NextFilter]_vars

----------------------------------------------------------------------------
\* Properties.

\* The script has run once since the latest click, with the widgets as they
\* were and the dataset of the same cache entry.
RunAfterClick ==
  /\ message # None
  /\ run_since_click
  /\ cache[1].at = at_click[1].cached_at

\* C1: from NoSelection, a click that reports the number n of an element of
\* the loaded dataset selects it: once the script has run, the element handed
\* to the details view is the element of the dataset whose number is n.
C1_ClickSelects ==
  (RunAfterClick /\ at_click[1].selected_element = None
     /\ message[1].number \in at_click[1].numbers)
  => /\ selected_element # None
     /\ selected_element[1].number = message[1].number
     /\ details.number = Some(message[1].number)

C4_Step ==
  (selected_element_number = None \/ selected_element_number[1] \notin Numbers(elements_df))
  => /\ run_error' = ""
     /\ details' = PromptView
     /\ details'.tables = {} /\ details'.charts = {}
     /\ selected_element' = None

\* C4, of every step: without a selection the dataset holds, the details view
\* is the prompt and nothing is raised.
C4_PromptWithoutSelection == [][C4_Step]_vars

\* The number 9999 was selected and the prompt rendered.
C4_Witness ==
  /\ selected_element_number = Some(9999)
  /\ 9999 \notin Numbers(elements_df)
  /\ details = PromptView
  /\ run_error = ""

\* C5: every cell of the grid that carries the click handler reports, when
\* clicked, the atomic number of the element the cell shows; the La-Lu and
\* Ac-Lr cells included.
C5_ClickReportsShownNumber ==
  \A i \in 1..Len(grid) :
    grid[i].kind = "element"
    => \E j \in 1..Len(elements_df) :
         /\ elements_df[j].number = JsValue(grid[i].onclick)
         /\ elements_df[j].symbol = grid[i].symbol

\* The failure kinds of a response: no connection, a status other than 200,
\* a body that is not JSON, no "elements" key, no electron_configuration field.
IsFailure(response) ==
  \/ response.conn = "error"
  \/ response.status_code # 200
  \/ ~response.text.json
  \/ "elements" \notin response.text.keys
  \/ \A i \in 1..Len(response.text.elements) :
       response.text.elements[i].electron_configuration = PyNaN

\* C6: load_element_data never raises; on each failure kind it warns and
\* returns the built-in dataset, which has at least 5 elements, Hydrogen (1, H)
\* and Helium (2, He) among them, of at least two categories and two phases.
C6_LoaderFallsBack ==
  last_fetch # None
  => /\ last_fetch[1].exc = ""
     /\ cache # None
     /\ IsFailure(last_fetch[1].response)
        => LET returned == cache[1].value
           IN  /\ last_fetch[1].warning
               /\ returned = FallbackElements
               /\ Len(returned) >= 5
               /\ \E i \in 1..Len(returned) :
                    returned[i].number = 1 /\ returned[i].symbol = <<"H">>
               /\ \E i \in 1..Len(returned) :
                    returned[i].number = 2 /\ returned[i].symbol = <<"H", "e">>
               /\ Cardinality(Column(returned, "category")) >= 2
               /\ Cardinality(Column(returned, "phase")) >= 2

\* A payload without electron_configuration was answered with the built-in
\* dataset and a warning.
C6_Witness ==
  /\ last_fetch # None
  /\ last_fetch[1].response = HttpResponse(200, JsonText(NoConfigElements))
  /\ last_fetch[1].warning
  /\ last_fetch[1].exc = ""
  /\ elements_df = FallbackElements

\* C7: within its 3600-unit window a cache entry serves every load: no fetch
\* is made and the dataset stays the one stored, fetched or built-in; a fetch
\* is made only without an entry or once the window has expired, and replaces
\* the dataset wholesale.
C7_Step ==
  /\ (cache # None /\ now - cache[1].at < 3600)
     => /\ cache' = cache
        /\ last_fetch' = last_fetch
        /\ elements_df' = cache[1].value
  /\ last_fetch' # last_fetch
     => /\ cache = None \/ now - cache[1].at >= 3600
        /\ last_fetch'[1].at = now
        /\ cache' = Some([at |-> now, value |-> elements_df'])

\* C7, of every step: no fetch inside the window of the entry, one dataset
\* throughout it, a fetch only once it has expired.
C7_IdempotentInWindow == [][C7_Step]_vars

\* Half a window after the only fetch, a search has re-run the script and the
\* dataset is still the one stored.
C7_Witness ==
  /\ cache # None
  /\ last_fetch # None
  /\ cache[1].at = 0
  /\ last_fetch[1].at = 0
  /\ now > 0
  /\ now - cache[1].at < 3600
  /\ widgets.search # <<>>
  /\ run_error = ""
  /\ elements_df = cache[1].value

\* The child of the grid that spans the 18 columns: the main loop wrote the
\* children before it, the two f-block loops those after it.
SpanAt(items) == CHOOSE i \in 1..Len(items) : items[i].kind = "span"

\* The row of the DataFrame an element cell shows.
RowShown(cell) ==
  CHOOSE j \in 1..Len(elements_df) : elements_df[j].number = JsValue(cell.onclick)

\* C8: in the 18-column grid, filled row by row in the order written, every
\* element of the main block is at column = its group and row = its period.
C8_MainBlockAtGroupPeriod ==
  grid # <<>>
  => LET placed == Place(grid)
     IN  \A i \in 1..(SpanAt(grid) - 1) :
           (grid[i].kind = "element" /\ IsDigitStr(grid[i].id))
           => /\ placed[i].row = elements_df[RowShown(grid[i])].period
              /\ placed[i].col = elements_df[RowShown(grid[i])].group.v[1]

\* C9: the lanthanides 57..71 are in one row of their own beneath the main
\* block, the actinides 89..103 in another, each in increasing order of
\* number, a column each; no actinide shares a row with a lanthanide.
C9_BlocksInOwnRows ==
  grid # <<>>
  => LET placed == Place(grid)
         span == SpanAt(grid)
         Number(i) == JsValue(grid[i].onclick)
         block == {i \in (span + 1)..Len(grid) : grid[i].kind = "element"}
         lanthanides == {i \in block : Number(i) \in 57..71}
         actinides == {i \in block : Number(i) \in 89..103}
         InOneRow(cells) ==
           \A i, j \in cells :
             /\ placed[i].row = placed[j].row
             /\ Number(i) < Number(j) => placed[i].col < placed[j].col
     IN  /\ InOneRow(lanthanides)
         /\ InOneRow(actinides)
         /\ \A i \in lanthanides, j \in actinides : placed[i].row # placed[j].row
         /\ \A i \in block, j \in 1..(span - 1) : placed[i].row > placed[j].row

\* C10: get_element_color returns a color of its table for every argument and
\* never fails; an argument that is missing or not a string gets the color of
\* "unknown".
C10_ColorTotal ==
  color_ret # None
  => /\ color_ret[1].exc = ""
     /\ color_ret[1].ret \in Colors
     /\ color_arg.t # "str" => color_ret[1].ret = category_colors[S_unknown]

\* text contains sub, character for character.
Contains(text, sub) ==
  \E i \in 1..(Len(text) - Len(sub) + 1) : SubSeq(text, i, i + Len(sub) - 1) = sub

\* The part of a label before its first comma.
BeforeComma(chars) ==
  SubSeq(chars, 1, (CHOOSE i \in 1..Len(chars) :
                      chars[i] = "," /\ \A j \in 1..(i - 1) : chars[j] # ",") - 1)

\* get_element_color was called with a string and has ended.
ColorOfLabel == color_ret # None /\ color_arg.t = "str"

\* C11: a compound label that has no entry of its own in the table gets the
\* color of the part before its first comma.
C11_CommaFallback ==
  (ColorOfLabel /\ Contains(color_arg.v, <<",">>)
     /\ Lower(color_arg.v) \notin DOMAIN category_colors)
  => color_ret[1] = get_element_color(PyStr(BeforeComma(color_arg.v)))

\* A label in lower case with spaces for hyphens.
Normalised(chars) ==
  [i \in 1..Len(chars) |-> IF chars[i] = "-" THEN " " ELSE LowerChar(chars[i])]

\* C12: every spelling of a label of the table that differs from it in
\* letter case or in hyphens for spaces only gets the color of that label.
C12_CaseAndHyphenInvariant ==
  ColorOfLabel
  => \A k \in DOMAIN category_colors :
       Normalised(color_arg.v) = Normalised(k)
       => color_ret[1] = Return(category_colors[k])

\* The colors of the labels of the table that name a metal.
MetalColors ==
  {category_colors[k] : k \in {S_alkali_metal, S_alkaline_earth_metal,
                               S_transition_metal, S_post_transition_metal}}

\* C13: a label with no entry of its own, whole or before its comma, gets the
\* nonmetal color if it contains "nonmetal", else a metal color if it contains
\* "metal", else the color of "unknown".
C13_SubstringRules ==
  (ColorOfLabel /\ Lower(color_arg.v) \notin DOMAIN category_colors
     /\ ~Contains(color_arg.v, <<",">>))
  => LET label == Lower(color_arg.v)
     IN  /\ color_ret[1].exc = ""
         /\ IF Contains(label, S_nonmetal)
              THEN color_ret[1].ret = category_colors[S_nonmetal]
              ELSE IF Contains(label, <<"m", "e", "t", "a", "l">>)
                THEN color_ret[1].ret \in MetalColors
                ELSE color_ret[1].ret = category_colors[S_unknown]

\* The script has run to its end, or to an exception, with the widgets as set.
HasRun == details # NoView \/ run_error # ""

\* The rows the four multiselects keep.
KeptByMultiselects ==
  SelectSeq(elements_df, LAMBDA row :
    /\ row.category \in widgets.category.value
    /\ row.phase \in widgets.phase.value
    /\ PyNum(row.period) \in widgets.period.value
    /\ row.group \in widgets.group.value)

\* C14: the search keeps exactly the rows, of those the multiselects keep,
\* whose name or symbol contains the query as a literal substring, letter case
\* aside; it never fails, whatever the query.
C14_SearchLiteralSubstring ==
  HasRun
  => /\ run_error = ""
     /\ filtered_df = SelectSeq(KeptByMultiselects, LAMBDA row :
                        \/ Contains(Lower(row.name), Lower(widgets.search))
                        \/ Contains(Lower(row.symbol), Lower(widgets.search)))

\* C15: display_element_details completes for every element of the dataset,
\* whichever of its optional fields (phase, electron configuration, ...) the
\* record lacks, and renders the element.
C15_DetailsWithoutOptionalFields ==
  (HasRun /\ selected_element_number # None
     /\ selected_element_number[1] \in Numbers(elements_df))
  => /\ run_error = ""
     /\ details.view = "element"
     /\ details.number = selected_element_number

\* The cells of the grid that show an element of the dataset.
CellsOfElements == {i \in 1..Len(grid) : grid[i].kind = "element" /\ IsDigitStr(grid[i].id)}

\* C16: a cell that shows an element is dimmed (opacity 0.35) if and only if
\* the element is not in the filtered view; with an empty view every such cell
\* is dimmed.
C16_DimmedIffFilteredOut ==
  (HasRun /\ run_error = "")
  => \A i \in CellsOfElements :
       grid[i].opacity = "0.35" <=> ParseNat(grid[i].id) \notin Numbers(filtered_df)

\* C17: every element of the dataset is shown in exactly one cell of the grid.
C17_EachElementOnce ==
  grid # <<>>
  => \A j \in 1..Len(elements_df) :
       Cardinality({i \in CellsOfElements : ParseNat(grid[i].id) = elements_df[j].number}) = 1

\* C18: with every multiselect at its default and the search box empty the
\* filtered view is the whole dataset, and no cell is dimmed.
C18_DefaultKeepsAll ==
  (HasRun /\ run_error = "" /\ Narrowed(widgets) = {})
  => /\ filtered_df = elements_df
     /\ \A i \in CellsOfElements : grid[i].opacity = "1.0"

====
